---- MODULE Spec2Model ----
(***************************************************************************)
(* Traffic router ("elector") of the churn-prediction serving stack.       *)
(* Modelled from kubemini-test-ml/elector/app.py: the weighted choice of   *)
(* the routing order, the downstream call with its status check and JSON   *)
(* decoding, and the failover loop of route_prediction.                    *)
(***************************************************************************)
EXTENDS Integers, Sequences, FiniteSets, TLC

(* ------------------------------ bounds -------------------------------- *)

\* number of inbound requests handled concurrently by the event loop
NumReqs == 2

Reqs == 1..NumReqs

(* ------------------------- program constants -------------------------- *)

\* os.getenv("CANARY_WEIGHT", "20")
DefaultCanaryWeight == 20

\* random.uniform(0, 100): the draw lies in [0, UniformHigh)
UniformHigh == 100

\* first status _call_model turns into an HTTPException
ErrorStatusFloor == 400

\* status of the HTTPException raised after the loop
NoModelStatus == 503

NoModelDetail == "No models available"

\* keys of MODEL_ENDPOINTS
ModelKeys == {"main", "canary"}

\* values CANARY_WEIGHT takes in the router runs explored: the two boundary
\* weights and the default
Weights == {0, DefaultCanaryWeight, UniformHigh}

\* values random.uniform(0, 100) can return, on an integer grid
Draws == 0..(UniformHigh - 1)

\* the draws the router runs explore: the ends of the range and the two
\* sides of the default weight
RouterDraws == {0, DefaultCanaryWeight - 1, DefaultCanaryWeight, UniformHigh - 1}

\* HTTP statuses a model endpoint answers with
Statuses == {200, 300, 400, 500}

(* ----------------------- downstream responses ------------------------- *)

\* what the awaited session.post(...) can produce for a call to endpoint k:
\* a timeout, a connection error, or an HTTP response with a status, a body
\* text and whether that text decodes as JSON
TimeoutEv(k) == [kind |-> "timeout", from |-> k, status |-> 0, json |-> FALSE]

ConnErrEv(k) == [kind |-> "connerr", from |-> k, status |-> 0, json |-> FALSE]

HttpEv(k, s, j) == [kind |-> "http", from |-> k, status |-> s, json |-> j]

\* the client went away while the call was awaited
CancelEv(k) == [kind |-> "cancel", from |-> k, status |-> 0, json |-> FALSE]

Responses(k) ==
    {TimeoutEv(k), ConnErrEv(k)}
      \cup {HttpEv(k, s, j) : s \in Statuses, j \in BOOLEAN}

\* response.text(): the body text of an HTTP response
TextOf(ev) == ev.from \o " answered " \o ToString(ev.status)

\* response.json(): the decoded body
JsonOf(ev) == [prediction |-> [model_key |-> ev.from], status |-> ev.status]

NoValue == [prediction |-> [model_key |-> "none"], status |-> 0]

NoExc == [type |-> "none", status |-> 0, detail |-> ""]

(* ---------------------------- _routing_order -------------------------- *)

\* the comparison lets a draw equal to the weight through to the canary
RoutingOrderLe(w, r) ==
    LET primary == IF r <= w THEN "canary" ELSE "main"
        secondary == IF primary = "canary" THEN "main" ELSE "canary"
    IN  <<primary, secondary>>

\* the two branches of the weighted choice swapped
RoutingOrderSwapped(w, r) ==
    LET primary == IF r < w THEN "main" ELSE "canary"
        secondary == IF primary = "canary" THEN "main" ELSE "canary"
    IN  <<primary, secondary>>

RoutingOrder(w, r) ==
    LET primary == IF r < w THEN "canary" ELSE "main"
        secondary == IF primary = "canary" THEN "main" ELSE "canary"
    IN  <<primary, secondary>>

(* ------------------------------ _call_model --------------------------- *)

\* only server errors raise
IsErrorStatusServerOnly(status) == status >= 500

\* "if response.status >= 400"
IsErrorStatus(status) == status >= ErrorStatusFloor

\* any body text taken for JSON
DecodesAsJsonAlways(ev) == TRUE

\* "await response.json()" returns rather than raises
DecodesAsJson(ev) == ev.json

\* outcome of _call_model when the awaited post produces ev: either a
\* returned JSON value or a raised exception
CallModel(ev) ==
    CASE ev.kind = "timeout" ->
           [raised |-> TRUE, value |-> NoValue,
            exc |-> [type |-> "TimeoutError", status |-> 0, detail |-> ""]]
      [] ev.kind = "connerr" ->
           [raised |-> TRUE, value |-> NoValue,
            exc |-> [type |-> "ClientError", status |-> 0, detail |-> ""]]
      [] ev.kind = "cancel" ->
           [raised |-> TRUE, value |-> NoValue,
            exc |-> [type |-> "CancelledError", status |-> 0, detail |-> ""]]
      [] ev.kind = "http" /\ IsErrorStatus(ev.status) ->
           [raised |-> TRUE, value |-> NoValue,
            exc |-> [type |-> "HTTPException", status |-> ev.status,
                     detail |-> TextOf(ev)]]
      [] ev.kind = "http" /\ ~IsErrorStatus(ev.status) /\ ~DecodesAsJson(ev) ->
           [raised |-> TRUE, value |-> NoValue,
            exc |-> [type |-> "JSONDecodeError", status |-> 0, detail |-> ""]]
      [] OTHER ->
           [raised |-> FALSE, value |-> JsonOf(ev), exc |-> NoExc]

\* a handler that catches BaseException
CaughtByExceptAll(exc) == TRUE

\* "except Exception": asyncio.CancelledError derives from BaseException and
\* is not caught; every other exception raised by _call_model is
CaughtByExcept(exc) == exc.type # "CancelledError"

\* the tag hard-wired to the main model
RoutedResultMain(key, value) == [routed_to |-> "main", response |-> value]

\* {"routed_to": model_key, "response": result}
RoutedResult(key, value) == [routed_to |-> key, response |-> value]

\* the loop's last exception re-raised instead of the 503
NoModelErrorReraise(exc) == exc

\* the failure reported as an internal error
NoModelError500(exc) ==
    [type |-> "HTTPException", status |-> 500, detail |-> NoModelDetail]

\* the HTTPException raised once the loop has run out of model keys; exc is
\* the exception the last iteration caught and logged
NoModelError(exc) ==
    [type |-> "HTTPException", status |-> NoModelStatus, detail |-> NoModelDetail]

(* ----------------------------- ChurnRequest --------------------------- *)

\* a JSON value of the payload: a number, a non-numeric string, or null
Num(v) == [t |-> "num", v |-> v]

Str == [t |-> "str", v |-> 0]

NoPayload == [age |-> [t |-> "none", v |-> 0]]

\* JSON objects posted to the router, told apart by the declared field "age"
Payloads == {[age |-> Num(0)], [age |-> Num(0 - 1)], [age |-> Str]}

\* the bound excludes zero
ChurnRequestValidGt(p) ==
    \/ p.age.t = "null"
    \/ p.age.t = "num" /\ p.age.v > 0

\* "age: Optional[float] = Field(None, ge=0)" as FastAPI applies it to the
\* body of POST /predict
ChurnRequestValid(p) ==
    \/ p.age.t = "null"
    \/ p.age.t = "num" /\ p.age.v >= 0

\* what FastAPI answers when the body does not validate
RequestValidationError ==
    [type |-> "RequestValidationError", status |-> 422, detail |-> "age"]

(* ------------------------------- state -------------------------------- *)

\* predictions submitted on the dashboard in the runs explored
NumSubmits == 2

Subs == 1..NumSubmits

VARIABLES
    canary_weight,  \* CANARY_WEIGHT, read once at import
    payload,        \* per request: the JSON object posted to the router
    pc,             \* per request: position in predict and route_prediction
    order,          \* per request: the list returned by _routing_order
    pos,            \* per request: index of the loop over order (0 = not begun)
    calls,          \* per request: model keys posted to, in order
    inflight,       \* per request: set of model keys with a call awaited
    last,           \* per request: what the most recently completed call produced
    warnings,       \* per request: model keys logged by "Model %s failed"
    result,         \* per request: the value returned by route_prediction
    error,          \* per request: the exception leaving route_prediction
    ro_weight,      \* _routing_order on its own: the weight it reads
    ro_draw,        \* _routing_order on its own: the value of random.uniform
    ro_order        \* _routing_order on its own: the list returned (<<>> before)

routerVars == <<canary_weight, payload, pc, order, pos, calls, inflight, last, warnings,
                result, error>>

roVars == <<ro_weight, ro_draw, ro_order>>

(* --------------------------- model endpoints -------------------------- *)

\* what MODEL_PATH can hold when an endpoint is started: no file, a file
\* joblib cannot load, a file it can
Artifacts == {"missing", "unreadable", "ok"}

\* operations an endpoint serves
EndpointOps == {"predict", "health", "metadata"}

\* a missing file answered with no model instead of an exception
LoadArtifactLenient(a) ==
    IF a = "ok"
    THEN [raised |-> FALSE, exc |-> "none", model |-> TRUE]
    ELSE IF a = "unreadable"
    THEN [raised |-> TRUE, exc |-> "UnpicklingError", model |-> FALSE]
    ELSE [raised |-> FALSE, exc |-> "none", model |-> FALSE]

\* load_artifact: FileNotFoundError when the path does not exist, else
\* whatever joblib.load returns or raises
LoadArtifact(a) ==
    IF a = "missing"
    THEN [raised |-> TRUE, exc |-> "FileNotFoundError", model |-> FALSE]
    ELSE IF a = "unreadable"
    THEN [raised |-> TRUE, exc |-> "UnpicklingError", model |-> FALSE]
    ELSE [raised |-> FALSE, exc |-> "none", model |-> TRUE]

VARIABLES
    ep_artifact,    \* per endpoint: what MODEL_PATH holds
    ep_state,       \* per endpoint: "importing", "serving" or "crashed"
    ep_loaded,      \* per endpoint: loaded_model is bound to a model
    ep_error,       \* per endpoint: the exception that ended the import
    ep_served       \* per endpoint: the operations answered so far

epVars == <<ep_artifact, ep_state, ep_loaded, ep_error, ep_served>>

\* the endpoints before their modules are imported
EndpointInit ==
    /\ ep_artifact \in [ModelKeys -> Artifacts]
    /\ ep_state = [k \in ModelKeys |-> "importing"]
    /\ ep_loaded = [k \in ModelKeys |-> FALSE]
    /\ ep_error = [k \in ModelKeys |-> "none"]
    /\ ep_served = [k \in ModelKeys |-> <<>>]

\* the endpoints as the runs of the other components leave them
EndpointIdle ==
    /\ EndpointInit
    /\ ep_artifact = [k \in ModelKeys |-> "ok"]

(* --------------------------- metrics registry ------------------------- *)

\* a JSON object is the set of its <<key, value>> items; {} is the empty one
EmptyMapping == {}

\* the registry entry train() writes for a model key
EntryOf(k) == {<<"train", k>>, <<"test", k>>}

\* the object train() dumps, cut down to the model keys in ks
RegistryObject(ks) == {<<k, EntryOf(k)>> : k \in ks}

\* what MODEL_REGISTRY_PATH can hold: no file, text that is not JSON (an
\* empty or half-written file included), or a registry object
AbsentFile == [kind |-> "absent", data |-> EmptyMapping]

GarbageFile == [kind |-> "garbage", data |-> EmptyMapping]

JsonFile(ks) == [kind |-> "json", data |-> RegistryObject(ks)]

RegistryFiles == {AbsentFile, GarbageFile} \cup {JsonFile(ks) : ks \in SUBSET ModelKeys}

\* keys MODEL_KEY takes: the two models and one the registry never holds
RequestedKeys == ModelKeys \cup {"staging"}

\* dict.get(key, {})
DictGet(d, key) ==
    IF \E item \in d : item[1] = key
    THEN (CHOOSE item \in d : item[1] = key)[2]
    ELSE EmptyMapping

Returned(v) == [raised |-> FALSE, exc |-> "none", value |-> v]

Raised(e) == [raised |-> TRUE, exc |-> e, value |-> EmptyMapping]

\* the decode error let through
RegistryEntryUnguarded(file, key) ==
    IF file.kind = "absent" THEN Returned(EmptyMapping)
    ELSE IF file.kind = "garbage" THEN Raised("JSONDecodeError")
    ELSE Returned(DictGet(file.data, key))

\* registry_entry
RegistryEntry(file, key) ==
    IF file.kind = "absent" THEN Returned(EmptyMapping)
    ELSE IF file.kind = "garbage" THEN Returned(EmptyMapping)
    ELSE Returned(DictGet(file.data, key))

\* load_registry
LoadRegistry(file) ==
    IF file.kind = "absent" THEN Returned(EmptyMapping)
    ELSE IF file.kind = "garbage" THEN Returned(EmptyMapping)
    ELSE Returned(file.data)

VARIABLES
    rg_file,        \* what MODEL_REGISTRY_PATH holds
    rg_train,       \* train(): "idle", "writing" (file opened "w") or "done"
    rg_reads        \* the reads made so far: reader, key, file read, outcome

rgVars == <<rg_file, rg_train, rg_reads>>

RegistryInit ==
    /\ rg_file \in RegistryFiles
    /\ rg_train = "idle"
    /\ rg_reads = <<>>

\* the registry as the runs of the other components leave it
RegistryIdle ==
    /\ RegistryInit
    /\ rg_file = AbsentFile

(* ------------------------------ dashboard ----------------------------- *)

\* os.getenv("CANARY_TRAFFIC_PERCENT", 20)
DefaultTrafficPercent == 20

\* values CANARY_TRAFFIC_PERCENT takes in the runs explored
TrafficPercents == {0, DefaultTrafficPercent, UniformHigh}

\* the None of a row
Null == "null"

\* "canary" if random.random() * 100 < CANARY_TRAFFIC_PERCENT else "main"
DashRoutedTo(percent, d) == IF d < percent THEN "canary" ELSE "main"

\* the dashboard's _call_model when the post produces ev. raise_for_status
\* raises for 4xx and 5xx in every httpx; for other statuses outside 2xx it
\* raises or not with the httpx installed (strict)
DashCallModel(ev, strict) ==
    CASE ev.kind = "timeout" -> [raised |-> TRUE, exc |-> "TimeoutException"]
      [] ev.kind = "connerr" -> [raised |-> TRUE, exc |-> "ConnectError"]
      [] ev.kind = "http" /\ ev.status >= 400 ->
           [raised |-> TRUE, exc |-> "HTTPStatusError"]
      [] ev.kind = "http" /\ ev.status \notin 200..299 /\ strict ->
           [raised |-> TRUE, exc |-> "HTTPStatusError"]
      [] ev.kind = "http" /\ ~ev.json ->
           [raised |-> TRUE, exc |-> "JSONDecodeError"]
      [] OTHER -> [raised |-> FALSE, exc |-> "none"]

\* only the status error handled
DashCaughtStatusOnly(exc) == exc = "HTTPStatusError"

\* "except Exception" around the call in predict_remote
DashCaught(exc) == TRUE

\* the row appended after a call that returned
ResultRow(routed) ==
    [model |-> routed, error |-> Null, churn_probability |-> "proba",
     predicted_label |-> "label"]

\* the row appended after a call that raised exc
ErrorRow(routed, exc) ==
    [model |-> routed, error |-> exc, churn_probability |-> Null,
     predicted_label |-> Null]

VARIABLES
    db_percent,     \* CANARY_TRAFFIC_PERCENT
    db_pc,          \* per submission: "form", "calling", "shown" or "crashed"
    db_routed,      \* per submission: routed_to
    db_calls,       \* per submission: model keys posted to, in order
    db_event,       \* per submission: what the post produced
    db_rows         \* per submission: the rows of the frame returned

dbVars == <<db_percent, db_pc, db_routed, db_calls, db_event, db_rows>>

\* state of the components that are not the router
sideVars == <<roVars, epVars, rgVars, dbVars>>

vars == <<routerVars, sideVars>>

NoResult == [routed_to |-> "none", response |-> NoValue]

NoEvent == [kind |-> "none", from |-> "none", status |-> 0, json |-> FALSE]

DashboardInit ==
    /\ db_percent \in TrafficPercents
    /\ db_pc = [u \in Subs |-> "form"]
    /\ db_routed = [u \in Subs |-> "none"]
    /\ db_calls = [u \in Subs |-> <<>>]
    /\ db_event = [u \in Subs |-> NoEvent]
    /\ db_rows = [u \in Subs |-> <<>>]

\* the dashboard as the runs of the other components leave it
DashboardIdle ==
    /\ DashboardInit
    /\ db_percent = DefaultTrafficPercent

RouterInit ==
    /\ canary_weight \in Weights
    /\ payload = [r \in Reqs |-> NoPayload]
    /\ pc = [r \in Reqs |-> "START"]
    /\ order = [r \in Reqs |-> <<>>]
    /\ pos = [r \in Reqs |-> 0]
    /\ calls = [r \in Reqs |-> <<>>]
    /\ inflight = [r \in Reqs |-> {}]
    /\ last = [r \in Reqs |-> NoEvent]
    /\ warnings = [r \in Reqs |-> <<>>]
    /\ result = [r \in Reqs |-> NoResult]
    /\ error = [r \in Reqs |-> NoExc]

Init ==
    /\ RouterInit
    /\ ro_weight = DefaultCanaryWeight
    /\ ro_draw = 0
    /\ ro_order = <<>>
    /\ EndpointIdle
    /\ RegistryIdle
    /\ DashboardIdle

\* the second call awaited under the first call's name
TryStateFirst(i) == "TRY_PRIMARY"

\* name of the state in which the call at loop index i is awaited
TryState(i) == IF i = 1 THEN "TRY_PRIMARY" ELSE "TRY_SECONDARY"

\* every iteration posts to the head of the list
KeyAtFirst(o, i) == o[1]

\* "for model_key in <list>": the model key of iteration i over list o
KeyAt(o, i) == o[i]

\* both models posted to at once
StartFanOut(r) ==
    /\ pc[r] = "START"
    /\ \E p \in Payloads :
         /\ ChurnRequestValid(p)
         /\ payload' = [payload EXCEPT ![r] = p]
    /\ \E d \in RouterDraws :
         LET o == RoutingOrder(canary_weight, d) IN
         /\ order' = [order EXCEPT ![r] = o]
         /\ pos' = [pos EXCEPT ![r] = 1]
         /\ calls' = [calls EXCEPT ![r] = o]
         /\ inflight' = [inflight EXCEPT ![r] = {o[1], o[2]}]
         /\ pc' = [pc EXCEPT ![r] = TryState(1)]
    /\ UNCHANGED <<canary_weight, last, warnings, result, error, sideVars>>

\* the routing order kept in one place for all requests
StartSharedOrder(r) ==
    /\ pc[r] = "START"
    /\ \E p \in Payloads :
         /\ ChurnRequestValid(p)
         /\ payload' = [payload EXCEPT ![r] = p]
    /\ \E d \in RouterDraws :
         LET o == RoutingOrder(canary_weight, d) IN
         /\ order' = [q \in Reqs |-> o]
         /\ pos' = [pos EXCEPT ![r] = 1]
         /\ calls' = [calls EXCEPT ![r] = <<KeyAt(o, 1)>>]
         /\ inflight' = [inflight EXCEPT ![r] = {KeyAt(o, 1)}]
         /\ pc' = [pc EXCEPT ![r] = TryState(1)]
    /\ UNCHANGED <<canary_weight, last, warnings, result, error, sideVars>>

\* POST /predict arrives with a body that validates: route_prediction opens
\* the session, draws the routing order and posts to the first model of the
\* list
Start(r) ==
    /\ pc[r] = "START"
    /\ \E p \in Payloads :
         /\ ChurnRequestValid(p)
         /\ payload' = [payload EXCEPT ![r] = p]
    /\ \E d \in RouterDraws :
         LET o == RoutingOrder(canary_weight, d) IN
         /\ order' = [order EXCEPT ![r] = o]
         /\ pos' = [pos EXCEPT ![r] = 1]
         /\ calls' = [calls EXCEPT ![r] = <<KeyAt(o, 1)>>]
         /\ inflight' = [inflight EXCEPT ![r] = {KeyAt(o, 1)}]
         /\ pc' = [pc EXCEPT ![r] = TryState(1)]
    /\ UNCHANGED <<canary_weight, last, warnings, result, error, sideVars>>

\* POST /predict arrives with a body that does not validate: the handler is
\* not entered and the client is answered 422
Reject(r) ==
    /\ pc[r] = "START"
    /\ \E p \in Payloads :
         /\ ~ChurnRequestValid(p)
         /\ payload' = [payload EXCEPT ![r] = p]
    /\ pc' = [pc EXCEPT ![r] = "REJECTED"]
    /\ error' = [error EXCEPT ![r] = RequestValidationError]
    /\ UNCHANGED <<canary_weight, order, pos, calls, inflight, last, warnings,
                   result, sideVars>>

\* the body of the for loop once the awaited call has produced ev
LoopStep(r, ev) ==
    LET out == CallModel(ev)
        key == KeyAt(order[r], pos[r])
    IN  /\ last' = [last EXCEPT ![r] = ev]
        /\ IF ~out.raised
           THEN \* return {"routed_to": model_key, "response": result}
                /\ result' = [result EXCEPT ![r] = RoutedResult(key, out.value)]
                /\ pc' = [pc EXCEPT ![r] = "SUCCESS"]
                /\ inflight' = [inflight EXCEPT ![r] = {}]
                /\ UNCHANGED <<pos, calls, warnings, error>>
           ELSE IF ~CaughtByExcept(out.exc)
           THEN \* the exception leaves route_prediction
                /\ error' = [error EXCEPT ![r] = out.exc]
                /\ pc' = [pc EXCEPT ![r] = "CANCELLED"]
                /\ inflight' = [inflight EXCEPT ![r] = {}]
                /\ UNCHANGED <<pos, calls, warnings, result>>
           ELSE IF pos[r] < Len(order[r])
           THEN \* logged; the loop goes on to the next model key
                LET next == KeyAt(order[r], pos[r] + 1) IN
                /\ warnings' = [warnings EXCEPT ![r] = Append(@, key)]
                /\ pos' = [pos EXCEPT ![r] = @ + 1]
                /\ calls' = [calls EXCEPT ![r] = Append(@, next)]
                /\ inflight' = [inflight EXCEPT ![r] = {next}]
                /\ pc' = [pc EXCEPT ![r] = TryState(pos[r] + 1)]
                /\ UNCHANGED <<result, error>>
           ELSE \* logged; raise HTTPException(status_code=503, ...)
                /\ warnings' = [warnings EXCEPT ![r] = Append(@, key)]
                /\ error' = [error EXCEPT ![r] = NoModelError(out.exc)]
                /\ pc' = [pc EXCEPT ![r] = "FAILED"]
                /\ inflight' = [inflight EXCEPT ![r] = {}]
                /\ UNCHANGED <<pos, calls, result>>
        /\ UNCHANGED <<canary_weight, payload, order, sideVars>>

\* the awaited downstream call completes (answer, timeout, connection error)
Respond(r) ==
    /\ pc[r] \in {"TRY_PRIMARY", "TRY_SECONDARY"}
    /\ \E ev \in Responses(calls[r][Len(calls[r])]) : LoopStep(r, ev)

\* the client cancels the inbound request while a downstream call is awaited
Cancel(r) ==
    /\ pc[r] \in {"TRY_PRIMARY", "TRY_SECONDARY"}
    /\ LoopStep(r, CancelEv(calls[r][Len(calls[r])]))

Next == \E r \in Reqs : Start(r) \/ Reject(r) \/ Respond(r) \/ Cancel(r)

Spec == Init /\ [][Next]_vars

\* the per-call timeout (timeout=REQUEST_TIMEOUT) ends every awaited call:
\* while some call is awaited, one of the awaited calls eventually completes
SpecLive == Spec /\ WF_vars(\E r \in Reqs : Respond(r))

(* ------------------- _routing_order as a function --------------------- *)

\* every weight in [0, 100] and every draw in [0, 100), on an integer grid
InitOrder ==
    /\ RouterInit
    /\ canary_weight = DefaultCanaryWeight
    /\ ro_weight \in 0..UniformHigh
    /\ ro_draw \in Draws
    /\ ro_order = <<>>
    /\ EndpointIdle
    /\ RegistryIdle
    /\ DashboardIdle

CallRoutingOrder ==
    /\ ro_order = <<>>
    /\ ro_order' = RoutingOrder(ro_weight, ro_draw)
    /\ UNCHANGED <<routerVars, ro_weight, ro_draw, epVars, rgVars, dbVars>>

NextOrder == CallRoutingOrder

SpecOrder == InitOrder /\ [][NextOrder]_vars

(* ------------------------ model endpoint start-up --------------------- *)

\* operations answered per endpoint in the runs explored
MaxServed == 2

\* the router at rest while another component runs
RouterIdle ==
    /\ RouterInit
    /\ canary_weight = DefaultCanaryWeight
    /\ ro_weight = DefaultCanaryWeight
    /\ ro_draw = 0
    /\ ro_order = <<>>

InitEndpoint ==
    /\ RouterIdle
    /\ EndpointInit
    /\ RegistryIdle
    /\ DashboardIdle

\* the module of endpoint k is imported: load_artifact runs; a
\* FileNotFoundError is logged and raised again, any other exception is not
\* caught, and either way the import fails before app is created
ImportEndpoint(k) ==
    /\ ep_state[k] = "importing"
    /\ LET out == LoadArtifact(ep_artifact[k]) IN
         IF out.raised
         THEN /\ ep_state' = [ep_state EXCEPT ![k] = "crashed"]
              /\ ep_error' = [ep_error EXCEPT ![k] = out.exc]
              /\ UNCHANGED ep_loaded
         ELSE /\ ep_state' = [ep_state EXCEPT ![k] = "serving"]
              /\ ep_loaded' = [ep_loaded EXCEPT ![k] = out.model]
              /\ UNCHANGED ep_error
    /\ UNCHANGED <<routerVars, roVars, rgVars, dbVars, ep_artifact, ep_served>>

\* endpoint k answers a predict, health or metadata request
ServeEndpoint(k) ==
    /\ ep_state[k] = "serving"
    /\ Len(ep_served[k]) < MaxServed
    /\ \E op \in EndpointOps :
         ep_served' = [ep_served EXCEPT ![k] = Append(@, op)]
    /\ UNCHANGED <<routerVars, roVars, rgVars, dbVars, ep_artifact, ep_state, ep_loaded,
                   ep_error>>

NextEndpoint == \E k \in ModelKeys : ImportEndpoint(k) \/ ServeEndpoint(k)

SpecEndpoint == InitEndpoint /\ [][NextEndpoint]_vars

(* ------------------------- reading the registry ----------------------- *)

\* reads made in the runs explored
MaxReads == 2

InitRegistry ==
    /\ RouterIdle
    /\ EndpointIdle
    /\ RegistryInit
    /\ DashboardIdle

\* GET /metadata of an endpoint whose MODEL_KEY is key: registry_entry(key)
ReadEntry ==
    /\ Len(rg_reads) < MaxReads
    /\ \E key \in RequestedKeys :
         rg_reads' = Append(rg_reads,
                            [by |-> "registry_entry", key |-> key, file |-> rg_file,
                             out |-> RegistryEntry(rg_file, key)])
    /\ UNCHANGED <<routerVars, roVars, epVars, dbVars, rg_file, rg_train>>

\* the dashboard is drawn: load_registry()
ReadAll ==
    /\ Len(rg_reads) < MaxReads
    /\ rg_reads' = Append(rg_reads,
                          [by |-> "load_registry", key |-> "none", file |-> rg_file,
                           out |-> LoadRegistry(rg_file)])
    /\ UNCHANGED <<routerVars, roVars, epVars, dbVars, rg_file, rg_train>>

\* train() opens the registry for writing, which empties it
TrainOpen ==
    /\ rg_train = "idle"
    /\ rg_train' = "writing"
    /\ rg_file' = GarbageFile
    /\ UNCHANGED <<routerVars, roVars, epVars, dbVars, rg_reads>>

\* train() has dumped the object and closed the file
TrainClose ==
    /\ rg_train = "writing"
    /\ rg_train' = "done"
    /\ rg_file' = JsonFile(ModelKeys)
    /\ UNCHANGED <<routerVars, roVars, epVars, dbVars, rg_reads>>

NextRegistry == ReadEntry \/ ReadAll \/ TrainOpen \/ TrainClose

SpecRegistry == InitRegistry /\ [][NextRegistry]_vars

(* ---------------------- the dashboard's predict_remote ---------------- *)

InitDashboard ==
    /\ RouterIdle
    /\ EndpointIdle
    /\ RegistryIdle
    /\ DashboardInit

\* the form is submitted: predict_remote prepares the payload, draws the
\* model and posts to its URL
Submit(u) ==
    /\ db_pc[u] = "form"
    /\ \E d \in Draws :
         LET routed == DashRoutedTo(db_percent, d) IN
         /\ db_routed' = [db_routed EXCEPT ![u] = routed]
         /\ db_calls' = [db_calls EXCEPT ![u] = <<routed>>]
    /\ db_pc' = [db_pc EXCEPT ![u] = "calling"]
    /\ UNCHANGED <<routerVars, roVars, epVars, rgVars, db_percent, db_event, db_rows>>

\* the post completes: one row is appended and the frame returned, or the
\* exception leaves predict_remote
DashRespond(u) ==
    /\ db_pc[u] = "calling"
    /\ \E ev \in Responses(db_routed[u]), strict \in BOOLEAN :
         LET out == DashCallModel(ev, strict) IN
         /\ db_event' = [db_event EXCEPT ![u] = ev]
         /\ IF ~out.raised
            THEN /\ db_rows' = [db_rows EXCEPT ![u] = <<ResultRow(db_routed[u])>>]
                 /\ db_pc' = [db_pc EXCEPT ![u] = "shown"]
            ELSE IF DashCaught(out.exc)
            THEN /\ db_rows' = [db_rows EXCEPT ![u] =
                                  <<ErrorRow(db_routed[u], out.exc)>>]
                 /\ db_pc' = [db_pc EXCEPT ![u] = "shown"]
            ELSE /\ db_pc' = [db_pc EXCEPT ![u] = "crashed"]
                 /\ UNCHANGED db_rows
    /\ UNCHANGED <<routerVars, roVars, epVars, rgVars, db_percent, db_routed, db_calls>>

NextDashboard == \E u \in Subs : Submit(u) \/ DashRespond(u)

SpecDashboard == InitDashboard /\ [][NextDashboard]_vars

(* ------------------------------ properties ---------------------------- *)

Primary(r) == order[r][1]

Secondary(r) == order[r][2]

\* route_prediction has been entered for the request
Started(r) == pc[r] \notin {"START", "REJECTED"}

\* the primary call raised and was logged, which is all the log holds
PrimaryFailedOnly(r) == Started(r) /\ warnings[r] = <<Primary(r)>>

\* C1: when the call to the primary fails and the call to the secondary
\* succeeds, the value returned is tagged with the secondary's key, carries
\* the secondary's decoded response, and exactly two downstream calls were
\* made, the primary first and then the secondary.
C1_FailoverResult ==
    \A r \in Reqs :
        (PrimaryFailedOnly(r) /\ pc[r] = "SUCCESS") =>
            /\ result[r].routed_to = Secondary(r)
            /\ result[r].response.prediction.model_key = Secondary(r)
            /\ last[r].from = Secondary(r)
            /\ result[r].response = JsonOf(last[r])
            /\ calls[r] = <<Primary(r), Secondary(r)>>
            /\ Primary(r) # Secondary(r)
            /\ error[r] = NoExc

C1_Witness ==
    \E r \in Reqs :
        /\ pc[r] = "SUCCESS"
        /\ warnings[r] = <<"canary">>
        /\ result[r].routed_to = "main"
        /\ Len(calls[r]) = 2

\* C2: when both the primary call and the secondary call fail, no result is
\* returned, route_prediction raises the HTTP 503 error with detail
\* "No models available", and only the two calls were made.
C2_BothFail ==
    \A r \in Reqs :
        (Started(r) /\ Len(warnings[r]) = 2) =>
            /\ pc[r] = "FAILED"
            /\ result[r] = NoResult
            /\ error[r].type = "HTTPException"
            /\ error[r].status = 503
            /\ error[r].detail = "No models available"
            /\ Len(calls[r]) = 2
            /\ inflight[r] = {}

C2_Witness ==
    \E r \in Reqs :
        /\ pc[r] = "FAILED"
        /\ warnings[r] = <<"main", "canary">>
        /\ last[r].kind = "connerr"

\* C3: a request never has more than two downstream calls, and neither
\* endpoint is called more than once for it, whatever the calls produce.
C3_AtMostTwoCalls ==
    \A r \in Reqs :
        /\ Len(calls[r]) <= 2
        /\ \A i, j \in 1..Len(calls[r]) : calls[r][i] = calls[r][j] => i = j
        /\ \A i \in 1..Len(calls[r]) : calls[r][i] \in ModelKeys

C3_Witness ==
    \E r \in Reqs :
        /\ pc[r] \in {"SUCCESS", "FAILED", "CANCELLED"}
        /\ Len(calls[r]) = 2
        /\ calls[r][1] # calls[r][2]

\* C4: when the call to the primary succeeds, the value returned is that
\* response tagged with the primary's key, one downstream call was made and
\* the secondary is not called for the request.
C4_PrimarySuccess ==
    \A r \in Reqs :
        (Started(r) /\ pc[r] = "SUCCESS" /\ warnings[r] = <<>> /\ pos[r] = 1) =>
            /\ result[r].routed_to = Primary(r)
            /\ result[r].response.prediction.model_key = Primary(r)
            /\ result[r].response = JsonOf(last[r])
            /\ calls[r] = <<Primary(r)>>
            /\ Secondary(r) \notin inflight[r]
            /\ inflight[r] = {}

C4_Witness ==
    \E r \in Reqs :
        /\ pc[r] = "SUCCESS"
        /\ warnings[r] = <<>>
        /\ result[r].routed_to = "canary"
        /\ calls[r] = <<"canary">>

\* C4, second half: a request that has returned a value makes no further
\* call and keeps that value.
C4_SuccessIsFinal ==
    [][\A r \in Reqs :
          pc[r] = "SUCCESS" =>
              /\ pc'[r] = "SUCCESS"
              /\ calls'[r] = calls[r]
              /\ result'[r] = result[r]]_vars

\* C5: for every draw r in [0,100) and every weight w in [0,100],
\* _routing_order returns [canary, main] when r < w and [main, canary]
\* otherwise: two entries, distinct, together exactly {main, canary}.
C5_RoutingOrder ==
    ro_order # <<>> =>
        /\ (ro_draw < ro_weight => ro_order = <<"canary", "main">>)
        /\ (ro_draw >= ro_weight => ro_order = <<"main", "canary">>)
        /\ Len(ro_order) = 2
        /\ ro_order[1] # ro_order[2]
        /\ {ro_order[1], ro_order[2]} = {"main", "canary"}

C5_Witness ==
    /\ ro_order = <<"canary", "main">>
    /\ ro_draw = 19
    /\ ro_weight = 20

\* C6: with canary_weight = 0 every request has main as its primary, and
\* with canary_weight = 100 every request has canary as its primary,
\* whatever the draw.
C6_BoundaryWeights ==
    \A r \in Reqs :
        Started(r) =>
            /\ (canary_weight = 0 => Primary(r) = "main" /\ calls[r][1] = "main")
            /\ (canary_weight = 100 =>
                   Primary(r) = "canary" /\ calls[r][1] = "canary")

C6_Witness ==
    /\ canary_weight = 100
    /\ \A r \in Reqs : Started(r) /\ calls[r][1] = "canary"

\* last[r] is what the primary's call produced: the call has completed and
\* no later call of the request has
PrimaryAnswered(r) ==
    /\ Started(r)
    /\ last[r].kind \notin {"none", "cancel"}
    /\ (pos[r] = 1 \/ pc[r] = "TRY_SECONDARY")

Is2xx(ev) == ev.kind = "http" /\ ev.status \in 200..299

\* C7 as stated: every failure of the primary call (timeout, connection
\* error, any response whose status is not 2xx) leads to exactly one call to
\* the secondary, and only a 2xx response of the primary is returned as
\* success.
C7_Non2xxFailsOver ==
    \A r \in Reqs :
        PrimaryAnswered(r) =>
            /\ (~Is2xx(last[r]) =>
                   pc[r] = "TRY_SECONDARY" /\ calls[r] = <<Primary(r), Secondary(r)>>)
            /\ (pc[r] = "SUCCESS" => Is2xx(last[r]))

\* what the router takes for a failed call: a timeout, a connection error,
\* a status of 400 or more, or a body that is not JSON
FailedCall(ev) ==
    \/ ev.kind \in {"timeout", "connerr"}
    \/ ev.kind = "http" /\ (ev.status >= 400 \/ ~ev.json)

\* C7 (amended): a timeout, a connection error, a response with status 400
\* or more, and a response below 400 whose body is not JSON each lead to
\* exactly one call to the secondary; a response below 400 with a JSON body,
\* 2xx or not, is returned as success with no second call.
C7_FailureLeadsToSecondary ==
    \A r \in Reqs :
        PrimaryAnswered(r) =>
            IF FailedCall(last[r])
            THEN /\ pc[r] = "TRY_SECONDARY"
                 /\ calls[r] = <<Primary(r), Secondary(r)>>
                 /\ inflight[r] = {Secondary(r)}
                 /\ warnings[r] = <<Primary(r)>>
            ELSE /\ pc[r] = "SUCCESS"
                 /\ calls[r] = <<Primary(r)>>
                 /\ result[r].routed_to = Primary(r)

C7_Witness ==
    \E r1, r2 \in Reqs :
        /\ pc[r1] = "TRY_SECONDARY" /\ last[r1].kind = "timeout"
        /\ pc[r2] = "SUCCESS" /\ pos[r2] = 1 /\ last[r2].status = 300

\* C8: when the primary rejects the payload with HTTP 400, the router
\* surfaces status 400 to its caller and does not call the secondary.
C8_ValidationNotRetried ==
    \A r \in Reqs :
        (PrimaryAnswered(r) /\ last[r].kind = "http" /\ last[r].status = 400) =>
            /\ calls[r] = <<Primary(r)>>
            /\ pc[r] = "FAILED"
            /\ error[r].status = 400

\* C9 as stated: when both downstream calls failed and the downstream
\* supplied a status and a message, the error returned carries them.
C9_DownstreamStatusSurfaced ==
    \A r \in Reqs :
        (pc[r] = "FAILED" /\ last[r].kind = "http" /\ last[r].status >= 400) =>
            /\ error[r].status = last[r].status
            /\ error[r].detail = TextOf(last[r])

\* C9 (amended): when both downstream calls failed, the error returned is
\* the router's own HTTP 503 "No models available", also when the
\* downstream supplied a status and a message.
C9_RouterErrorReturned ==
    \A r \in Reqs :
        (pc[r] = "FAILED" /\ last[r].kind = "http" /\ last[r].status >= 400) =>
            /\ error[r] = [type |-> "HTTPException", status |-> 503,
                           detail |-> "No models available"]
            /\ result[r] = NoResult

C9_Witness ==
    \E r \in Reqs :
        /\ pc[r] = "FAILED"
        /\ last[r].kind = "http"
        /\ last[r].status = 500
        /\ error[r].status = 503

\* C10: once the client has cancelled the request while a downstream call
\* was awaited, the request is over: the cancellation is not logged as a
\* failure of that call and no call follows the one that was cancelled.
C10_CancelNotRetried ==
    \A r \in Reqs :
        last[r].kind = "cancel" =>
            /\ pc[r] = "CANCELLED"
            /\ inflight[r] = {}
            /\ error[r].type = "CancelledError"
            /\ result[r] = NoResult
            /\ Len(calls[r]) = Len(warnings[r]) + 1
            /\ calls[r][Len(calls[r])] = last[r].from
            /\ \A i \in 1..Len(warnings[r]) : warnings[r][i] # last[r].from

C10_Witness ==
    \E r1, r2 \in Reqs :
        /\ pc[r1] = "CANCELLED" /\ calls[r1] = <<Primary(r1)>>
        /\ pc[r2] = "CANCELLED" /\ calls[r2] = <<Primary(r2), Secondary(r2)>>

\* C11: the calls of one request are sequential: at most one is awaited at
\* any time, the primary's is the only one awaited in TRY_PRIMARY, and the
\* secondary's is awaited only once the primary's has completed with a
\* failure.
C11_Sequential ==
    \A r \in Reqs :
        /\ Cardinality(inflight[r]) <= 1
        /\ Started(r) =>
              /\ (pc[r] = "TRY_PRIMARY" =>
                     inflight[r] = {Primary(r)} /\ calls[r] = <<Primary(r)>>)
              /\ (Secondary(r) \in inflight[r] => pc[r] = "TRY_SECONDARY")
              /\ (pc[r] = "TRY_SECONDARY" =>
                     /\ inflight[r] = {Secondary(r)}
                     /\ warnings[r] = <<Primary(r)>>
                     /\ last[r].from = Primary(r)
                     /\ FailedCall(last[r]))

C11_Witness ==
    \E r \in Reqs :
        /\ pc[r] = "TRY_SECONDARY"
        /\ inflight[r] = {"main"}
        /\ last[r] = HttpEv("canary", 500, FALSE)

\* the answer of the call at the head of the request's history is last[r],
\* it came with a status below 400 and its body is not JSON
NonJsonAnswer(r) ==
    /\ Started(r)
    /\ last[r].kind = "http"
    /\ last[r].status < 400
    /\ ~last[r].json

\* C17: an answer with a status below 400 whose body is not JSON counts as
\* a failed call: from the primary it is followed by one call to the
\* secondary, from the secondary it ends the request with the 503, and it is
\* never returned as a success.
C17_NonJsonIsFailure ==
    \A r \in Reqs :
        NonJsonAnswer(r) =>
            /\ pc[r] # "SUCCESS"
            /\ result[r] = NoResult
            /\ (last[r].from = Primary(r) =>
                   /\ pc[r] = "TRY_SECONDARY"
                   /\ calls[r] = <<Primary(r), Secondary(r)>>
                   /\ warnings[r] = <<Primary(r)>>)
            /\ (last[r].from = Secondary(r) =>
                   /\ pc[r] = "FAILED"
                   /\ error[r].status = 503
                   /\ calls[r] = <<Primary(r), Secondary(r)>>
                   /\ warnings[r] = <<Primary(r), Secondary(r)>>)

C17_Witness ==
    \E r1, r2 \in Reqs :
        /\ pc[r1] = "TRY_SECONDARY" /\ last[r1] = HttpEv(Primary(r1), 200, FALSE)
        /\ pc[r2] = "FAILED" /\ last[r2] = HttpEv(Secondary(r2), 200, FALSE)

ReqState(r) ==
    <<payload[r], pc[r], order[r], pos[r], calls[r], inflight[r], last[r],
      warnings[r], result[r], error[r]>>

Routing == {"TRY_PRIMARY", "TRY_SECONDARY"}

\* the transitions of the per-request state machine of the specification
MachineSteps ==
    {<<"START", "TRY_PRIMARY">>,
     <<"TRY_PRIMARY", "SUCCESS">>, <<"TRY_PRIMARY", "TRY_SECONDARY">>,
     <<"TRY_SECONDARY", "SUCCESS">>, <<"TRY_SECONDARY", "FAILED">>}

\* the transitions out of the machine: an invalid body, a cancelled request
OtherSteps ==
    {<<"START", "REJECTED">>,
     <<"TRY_PRIMARY", "CANCELLED">>, <<"TRY_SECONDARY", "CANCELLED">>}

\* C12 as stated: every request moves only along START, TRY_PRIMARY, then
\* SUCCESS or TRY_SECONDARY, then SUCCESS or FAILED, and, every awaited call
\* completing, every request being routed eventually is in SUCCESS or FAILED
\* and stays as it is.
C12_StateMachine ==
    /\ [][\A r \in Reqs :
             ReqState(r)' # ReqState(r) => <<pc[r], pc'[r]>> \in MachineSteps]_vars
    /\ \A r \in Reqs : (pc[r] \in Routing) ~> (pc[r] \in {"SUCCESS", "FAILED"})

\* C12 (amended): besides the transitions of the machine a request can only
\* be rejected from START for an invalid body or be abandoned from
\* TRY_PRIMARY or TRY_SECONDARY when its client cancels; every awaited call
\* completing, again and again no request is left in TRY_PRIMARY or
\* TRY_SECONDARY, so a request being routed eventually is in SUCCESS or
\* FAILED unless it was cancelled, and nothing of a request changes once it
\* has left START, TRY_PRIMARY and TRY_SECONDARY.
C12_Lifecycle ==
    /\ [][\A r \in Reqs :
             ReqState(r)' # ReqState(r) =>
                 <<pc[r], pc'[r]>> \in MachineSteps \cup OtherSteps]_vars
    /\ []<>(\A r \in Reqs : pc[r] \notin Routing)

C12_Witness ==
    \E r1, r2 \in Reqs :
        /\ pc[r1] = "FAILED" /\ Len(calls[r1]) = 2
        /\ pc[r2] = "SUCCESS" /\ Len(calls[r2]) = 2

\* what a request's course is made of: its own routing order and what its
\* own calls produced
OwnInputs(r) == <<order[r], calls[r], warnings[r], last[r]>>

\* what the router made of it
OwnOutcome(r) == <<pc[r], pos[r], inflight[r], result[r], error[r]>>

\* C13: whatever the interleaving, the weight keeps the value set at
\* startup, a step of one request changes nothing of another request, no
\* request waits for another, and two requests with the same routing order
\* and the same outcomes of their own calls are in the same state.
C13_Isolation ==
    /\ [][/\ canary_weight' = canary_weight
          /\ Cardinality({r \in Reqs : ReqState(r)' # ReqState(r)}) <= 1]_vars
    /\ [](\A r \in Reqs :
             /\ (pc[r] = "START" => ENABLED Start(r))
             /\ (pc[r] \in Routing => ENABLED Respond(r)))
    /\ [](\A r, q \in Reqs :
             (Started(r) /\ Started(q) /\ OwnInputs(r) = OwnInputs(q)) =>
                 OwnOutcome(r) = OwnOutcome(q))

C13_Witness ==
    \E r, q \in Reqs :
        /\ r # q
        /\ pc[r] = "SUCCESS" /\ result[r].routed_to = "canary"
        /\ pc[q] = "FAILED" /\ order[q] = <<"main", "canary">>

C16_RegistryReads ==
    /\ [](\A i \in 1..Len(rg_reads) :
            LET rd == rg_reads[i] IN
            /\ ~rd.out.raised
            /\ (rd.file.kind \in {"absent", "garbage"} => rd.out.value = {})
            /\ (rd.by = "registry_entry" /\ rd.file.kind = "json"
                  /\ (\A item \in rd.file.data : item[1] # rd.key) =>
                    rd.out.value = {})
            /\ (rd.by = "registry_entry" /\ rd.file.kind = "json"
                  /\ (\E item \in rd.file.data : item[1] = rd.key) =>
                    rd.out.value = {<<"train", rd.key>>, <<"test", rd.key>>}))
    /\ [][rg_reads' # rg_reads => rg_file' = rg_file]_vars

C16_Witness ==
    /\ Len(rg_reads) = 2
    /\ rg_reads[1].by = "registry_entry"
    /\ rg_reads[1].file.kind = "garbage"
    /\ rg_reads[1].out.value = {}
    /\ rg_reads[2].by = "registry_entry"
    /\ rg_reads[2].key = "staging"
    /\ rg_reads[2].file.kind = "json"
    /\ rg_reads[2].file.data # {}
    /\ rg_reads[2].out.value = {}

\* the post of submission u failed whatever the httpx installed
DashCallFailed(u) ==
    \/ db_event[u].kind \in {"timeout", "connerr"}
    \/ db_event[u].kind = "http" /\ (db_event[u].status >= 400 \/ ~db_event[u].json)

\* C18: predict_remote posts once, to the model its own draw chose, and
\* does not fail over: after a failed post the other model has not been
\* called, the frame has exactly one row, naming the chosen model, with the
\* error text and null churn_probability and predicted_label, and no
\* exception has left predict_remote.
C18_DashboardSingleCall ==
    \A u \in Subs :
        /\ Len(db_calls[u]) <= 1
        /\ db_pc[u] # "crashed"
        /\ db_pc[u] # "form" =>
              /\ db_calls[u] = <<db_routed[u]>>
              /\ db_routed[u] \in {"main", "canary"}
              /\ (db_percent = 0 => db_routed[u] = "main")
              /\ (db_percent = 100 => db_routed[u] = "canary")
        /\ (db_pc[u] = "shown" /\ DashCallFailed(u)) =>
              /\ Len(db_rows[u]) = 1
              /\ db_rows[u][1].model = db_routed[u]
              /\ db_rows[u][1].error \notin {"null", "none"}
              /\ db_rows[u][1].churn_probability = "null"
              /\ db_rows[u][1].predicted_label = "null"
        /\ (db_pc[u] = "shown" /\ ~DashCallFailed(u)) => Len(db_rows[u]) = 1

C18_Witness ==
    \E u \in Subs :
        /\ db_pc[u] = "shown"
        /\ db_routed[u] = "canary"
        /\ db_event[u].kind = "timeout"
        /\ db_calls[u] = <<"canary">>
        /\ db_rows[u][1].error = "TimeoutException"

====
